---- MODULE Spec2Model ----
(***************************************************************************)
(* User-account backend: registration, login, refresh-token rotation,      *)
(* logout, change-password and channel-profile lookup                      *)
(* (src/src/controllers/user.controller.js and its helpers).               *)
(*                                                                         *)
(* Every request handler is an async function.  Between two awaits the     *)
(* handler runs without interruption; at an await other requests may run.  *)
(* One action of the model is therefore one store operation (or            *)
(* collaborator call) together with the synchronous code that follows it   *)
(* up to the next await.  Strings are sequences of one-character strings,  *)
(* so that toLowerCase, trim and length are computed, not assumed.         *)
(***************************************************************************)
EXTENDS Integers, Sequences, FiniteSets, TLC

\* ------------------------------------------------------------------ bounds
NumSlots == 2        \* requests that can be in flight at the same time
MaxUsers == 2        \* user records the store can hold
MaxTime == 1         \* last second of the clock
RefreshLife == 1     \* lifetime of a refresh token, in seconds
AccessLife == 0      \* lifetime of an access token, in seconds

\* ------------------------------------------------------- program constants
MinNameLen == 2
MinPasswordLen == 6
MinNewPassLen == 6

Slots == 1..NumSlots

\* ------------------------------------------------------------------ strings
al == <<"a", "l">>
Al == <<"A", "l">>
bo == <<"b", "o">>
blank == <<" ", " ">>
mailA == <<"a", "@", "x">>
mailB == <<"b", "@", "x">>
fullN == <<"A", "A">>
pwOne == <<"s", "e", "c", "r", "e", "t">>
pwTwo == <<"h", "u", "n", "t", "e", "r">>
pwShort == <<"p", "w">>
Absent == <<>>       \* a field the request does not carry (undefined)

lowerChar(c) ==
  CASE c = "A" -> "a"
    [] c = "B" -> "b"
    [] OTHER -> c

toLowerCase(s) == [i \in 1..Len(s) |-> lowerChar(s[i])]

\* String.prototype.trim: drop leading and trailing blanks.
RECURSIVE trimStart(_)
trimStart(s) == IF s # <<>> /\ Head(s) = " " THEN trimStart(Tail(s)) ELSE s

RECURSIVE trimEnd(_)
trimEnd(s) ==
  IF s # <<>> /\ s[Len(s)] = " " THEN trimEnd(SubSeq(s, 1, Len(s) - 1)) ELSE s

trim(s) == trimEnd(trimStart(s))

\* z.string().email(): a local part, an @, a domain.
isEmail(s) == \E i \in 1..Len(s) : s[i] = "@" /\ 1 < i /\ i < Len(s)

\* ------------------------------------------------------------- validation
\* registerSchema.safeParse(req.body).success
registerSchemaOk(b) ==
  /\ Len(b.username) >= MinNameLen
  /\ isEmail(b.email)
  /\ Len(b.fullName) >= MinNameLen
  /\ Len(b.password) >= MinPasswordLen

\* loginSchema.safeParse(req.body).success
loginSchemaOk(b) ==
  /\ b.email = Absent \/ isEmail(b.email)
  /\ Len(b.password) >= MinPasswordLen
  /\ b.username # Absent \/ b.email # Absent

\* ---------------------------------------------------------- password hasher
hash(plain) == <<"$">> \o plain

\* user.isPasswordCorrect(plain): compares against the record's own password
\* field; a record loaded without that field makes the comparison throw.
isPasswordCorrect(rec, plain) ==
  IF "password" \notin DOMAIN rec THEN "throws"
  ELSE IF rec.password = hash(plain) THEN "true" ELSE "false"

\* ------------------------------------------------------------ token service
NoToken == [kind |-> "none", sub |-> 0, iat |-> 0]
BadToken == [kind |-> "malformed", sub |-> 0, iat |-> 0]

generateAccessToken(id, t) == [kind |-> "access", sub |-> id, iat |-> t]
generateRefreshToken(id, t) == [kind |-> "refresh", sub |-> id, iat |-> t]

lifetime(kind) == IF kind = "refresh" THEN RefreshLife ELSE AccessLife

\* jwt.verify(token, secret of `kind`): the signature check fails for a token
\* signed with the other secret or not signed at all, and the expiry check
\* fails once the clock has passed iat + lifetime.
verify(tok, kind, t) == tok.kind = kind /\ t <= tok.iat + lifetime(kind)

\* ---------------------------------------------------------- credential store
Sensitive == {"password", "refreshToken"}

\* the query with its select() left out
selectNothing(rec, minus) == rec

\* Query.select("-a -b"): the document without the named fields.
select(rec, minus) == [f \in (DOMAIN rec) \ minus |-> rec[f]]

NoDoc == [none |-> TRUE]

\* the handler with the username used as it was sent
usernameAsSent(b) == b.username

\* username.toLowerCase(), in the lookup and in the record created
lowerUsername(b) == toLowerCase(b.username)

newUser(id, b, url) ==
  [_id |-> id, username |-> lowerUsername(b), email |-> b.email,
   fullName |-> b.fullName, password |-> hash(b.password), avatar |-> url,
   refreshToken |-> NoToken]

\* -------------------------------------------------------------------- state
VARIABLES
  users,       \* the users collection: sequence of documents, _id = position
  subs,        \* the subscriptions collection: <<subscriber, channel>> pairs
  now,         \* the clock, in seconds
  pc,          \* per request slot: the await the handler is suspended at
  req,         \* per request slot: the request being served
  loc,         \* per request slot: the handler's local variables
  resp,        \* per request slot: the response sent
  issued,      \* refresh tokens that have been returned to a client
  registered,  \* history: <<username as sent, password>> of each 201
  refreshed,   \* history: tokens a successful refresh was presented with
  loggedOut,   \* history: users whose token a logout cleared, no login since
  superseded,  \* history: tokens returned before a finished login of the user
  peers        \* history: per refresh, the slots whose refresh overlaps it

vars == <<users, subs, now, pc, req, loc, resp, issued, registered, refreshed,
          loggedOut, superseded, peers>>

history == <<registered, refreshed, loggedOut, superseded>>

\* the _ids of the documents in the collection; a removed document leaves
\* its position behind, empty, so that its _id is never given out again
Stored == {i \in 1..Len(users) : users[i] # [none |-> TRUE]}

NoReq == [op |-> "none"]
NoLoc == [uid |-> 0, tok |-> NoToken, me |-> NoDoc]
\* an error value: an ApiError with its status code, or any other error
NoError == [api |-> FALSE, statusCode |-> 0, message |-> ""]
ForeignError == [api |-> FALSE, statusCode |-> 0, message |-> "collaborator failure"]

NoResp == [status |-> 0, message |-> "", user |-> NoDoc, accessToken |-> NoToken,
           refreshToken |-> NoToken, created |-> 0, channel |-> NoDoc,
           again |-> FALSE, saved |-> NoToken, thrown |-> NoError]

\* new ApiResponse(status, data, message) sent with res.status(status)
ApiResponse(status, message, user, tok) ==
  [status |-> status, message |-> message, user |-> user,
   accessToken |-> IF tok = NoToken THEN NoToken
                   ELSE generateAccessToken(tok.sub, tok.iat),
   refreshToken |-> tok, created |-> 0, channel |-> NoDoc, again |-> FALSE,
   saved |-> NoToken, thrown |-> NoError]

\* a handler that answers every error with the error's own message
messageOfError(err) ==
  [ApiResponse(IF err.api THEN err.statusCode ELSE 500, err.message,
               NoDoc, NoToken) EXCEPT !.thrown = err]

\* errorHandler(err, req, res, next), reached through next(err): the answer
\* to an error; `thrown` keeps the error it was called with
errorHandler(err) ==
  [ApiResponse(IF err.api THEN err.statusCode ELSE 500,
               IF err.api THEN err.message ELSE "Internal Server Error",
               NoDoc, NoToken) EXCEPT !.thrown = err]

\* throw new ApiError(status, message), answered by errorHandler
ApiError(status, message) ==
  errorHandler([api |-> TRUE, statusCode |-> status, message |-> message])

\* an error that is not an ApiError is thrown, answered by errorHandler
InternalError == errorHandler(ForeignError)

Free(p) == pc[p] \in {"idle", "done"}

\* the slots whose refresh request is in flight
Refreshing == {q \in Slots : ~Free(q) /\ req[q].op = "refresh"}

Init ==
  /\ users = <<>>
  /\ subs = {<<2, 1>>}
  /\ now = 0
  /\ pc = [p \in Slots |-> "idle"]
  /\ req = [p \in Slots |-> NoReq]
  /\ loc = [p \in Slots |-> NoLoc]
  /\ resp = [p \in Slots |-> NoResp]
  /\ issued = {}
  /\ registered = {}
  /\ refreshed = {}
  /\ loggedOut = {}
  /\ superseded = {}
  /\ peers = [p \in Slots |-> {}]

\* A request arrives in slot p: the slot's previous request is forgotten.
Accept(p, r) ==
  /\ Free(p)
  /\ \A q \in Slots : q < p => ~Free(q)
  /\ req' = [req EXCEPT ![p] = r]
  /\ peers' = IF r.op = "refresh"
                THEN [q \in Slots |-> IF q = p THEN Refreshing ELSE peers[q] \ {p}]
                ELSE [peers EXCEPT ![p] = {}]

\* The handler of slot p suspends at the await named `at`.
Await(p, at, l) ==
  /\ pc' = [pc EXCEPT ![p] = at]
  /\ loc' = [loc EXCEPT ![p] = l]
  /\ resp' = [resp EXCEPT ![p] = NoResp]

\* The handler of slot p answers r and ends.
Send(p, r) ==
  /\ pc' = [pc EXCEPT ![p] = "done"]
  /\ loc' = [loc EXCEPT ![p] = NoLoc]
  /\ resp' = [resp EXCEPT ![p] = r]

Tick ==
  /\ now < MaxTime
  /\ now' = now + 1
  /\ UNCHANGED <<users, subs, pc, req, loc, resp, issued, history, peers>>

\* ----------------------------------------------------------------- register
RegisterBody(u, e, pw) ==
  [username |-> u, email |-> e, fullName |-> fullN, password |-> pw]

\* the registrations tried when accounts are studied ...
RegisterRequests ==
  [body : {RegisterBody(al, mailA, pwOne), RegisterBody(Al, mailB, pwOne),
           RegisterBody(bo, mailA, pwOne), RegisterBody(bo, mailB, pwOne),
           RegisterBody(al, mailB, pwShort)},
   avatar : {TRUE}]
    \cup [body : {RegisterBody(bo, mailB, pwOne)}, avatar : {FALSE}]

\* ... and when sessions are studied: one account, the spec's "alice"
OneRegisterRequest == [body : {RegisterBody(al, mailA, pwOne)}, avatar : {TRUE}]

\* User.findOne({ $or: [{ username }, { email }] }): the matching documents
matching(uname, email) ==
  {i \in Stored : users[i].username = uname \/ users[i].email = email}

\* the unique indexes on username and email reject a duplicate insert
duplicateKey(doc) ==
  \E i \in Stored : users[i].username = doc.username \/ users[i].email = doc.email

\* a record holds the username, compared without case, or the email
Taken(b) ==
  \E i \in Stored : \/ toLowerCase(users[i].username) = toLowerCase(b.username)
                     \/ users[i].email = b.email

\* registerUser, lines 13-25: the request arrives and is validated
RegisterStart(p, requests) ==
  \E r \in requests :
    /\ Accept(p, [op |-> "register", body |-> r.body, avatar |-> r.avatar,
                  uploaded |-> "pending",
                  taken |-> Taken(r.body)])
    /\ IF ~registerSchemaOk(r.body)
         THEN Send(p, ApiError(400, "Validation Failed"))
         ELSE Await(p, "reg_find", NoLoc)
    /\ UNCHANGED <<users, subs, now, issued, history>>

\* the handler with the avatar check left out
avatarNotChecked(r) == TRUE

\* req.files?.avatar?.[0]?.path is set
avatarLocalPath(r) == r.avatar

\* registerUser, lines 28-43: the lookup answers, the avatar path is read
RegisterFind(p) ==
  /\ pc[p] = "reg_find"
  /\ LET b == req[p].body IN
       IF matching(lowerUsername(b), b.email) # {}
         THEN Send(p, ApiError(409, "User already registered with username or email"))
       ELSE IF ~avatarLocalPath(req[p])
         THEN Send(p, ApiError(400, "Avatar file is required"))
       ELSE Await(p, "reg_upload", NoLoc)
  /\ UNCHANGED <<users, subs, now, req, issued, history, peers>>

\* avatar?.url is set
hasUrl(answer) == answer = "url"

\* registerUser, lines 43-50: the upload collaborator answers
RegisterUpload(p) ==
  /\ pc[p] = "reg_upload"
  /\ \E answer \in {"url", "null"} :
       /\ req' = [req EXCEPT ![p].uploaded = answer]
       /\ IF ~hasUrl(answer)
            THEN Send(p, ApiError(400, "Failed to upload avatar to cloud"))
            ELSE Await(p, "reg_create", NoLoc)
  /\ UNCHANGED <<users, subs, now, issued, history, peers>>

\* registerUser, lines 50-59: User.create answers
RegisterCreate(p) ==
  /\ pc[p] = "reg_create"
  /\ LET doc == newUser(Len(users) + 1, req[p].body, "url") IN
       IF duplicateKey(doc)
         THEN /\ Send(p, InternalError)
              /\ users' = users
       ELSE /\ Len(users) < MaxUsers
            /\ users' = Append(users, doc)
            /\ Await(p, "reg_fetch", [NoLoc EXCEPT !.uid = doc._id])
  /\ UNCHANGED <<subs, now, req, issued, history, peers>>

\* registerUser, lines 59-70: the re-fetch answers and the response is sent
RegisterFetch(p) ==
  /\ pc[p] = "reg_fetch"
  /\ LET id == loc[p].uid IN
       IF id \notin Stored
         THEN Send(p, [ApiError(500, "Something went wrong while fetching user")
                         EXCEPT !.created = id])
         ELSE Send(p, [ApiResponse(201, "User registered successfully",
                                   select(users[id], Sensitive), NoToken)
                         EXCEPT !.created = id])
  /\ registered' = IF loc[p].uid \in Stored
                     THEN registered \cup {<<req[p].body.username, req[p].body.password>>}
                     ELSE registered
  /\ UNCHANGED <<users, subs, now, req, issued, refreshed, loggedOut,
                 superseded, peers>>

\* -------------------------------------------------------------------- login
LoginBody(u, e, pw) == [username |-> u, email |-> e, password |-> pw]

LoginBodies ==
  {LoginBody(al, Absent, pwOne), LoginBody(Al, Absent, pwOne),
   LoginBody(al, Absent, pwTwo), LoginBody(al, Absent, pwShort),
   LoginBody(Absent, mailA, pwOne), LoginBody(Absent, Absent, pwOne)}

SessionLoginBodies == {LoginBody(al, Absent, pwOne), LoginBody(al, Absent, pwTwo)}

\* loginUser, lines 73-86: the request arrives and is validated
LoginStart(p, bodies) ==
  \E b \in bodies :
    /\ Accept(p, [op |-> "login", body |-> b,
                  known |-> {r[2] : r \in {x \in registered : x[1] = b.username}}])
    /\ IF ~loginSchemaOk(b)
         THEN Send(p, ApiError(400, "Validation failed"))
         ELSE Await(p, "login_find", NoLoc)
    /\ UNCHANGED <<users, subs, now, issued, history>>

\* loginUser, lines 86-100: the lookup answers, the password is compared
LoginFind(p) ==
  /\ pc[p] = "login_find"
  /\ LET b == req[p].body
         found == matching(b.username, b.email)
     IN
       IF found = {}
         THEN Send(p, ApiError(401, "Invalid credentials - user not found"))
       ELSE \E id \in found :
              IF isPasswordCorrect(users[id], b.password) # "true"
                THEN Send(p, ApiError(401, "Invalid credentials - wrong password"))
                ELSE Await(p, "gen_find", [NoLoc EXCEPT !.uid = id])
  /\ UNCHANGED <<users, subs, now, req, issued, history, peers>>

\* ------------------------------------------ generateAccessAndRefreshToken
\* lines 29-35: User.findById answers, both tokens are signed
GenerateFind(p) ==
  /\ pc[p] = "gen_find"
  /\ IF loc[p].uid \notin Stored
       THEN Send(p, ApiError(500, "Something went wrong! while generating Access and Refresh tokens"))
       ELSE Await(p, "gen_save",
                  [loc[p] EXCEPT !.tok = generateRefreshToken(loc[p].uid, now)])
  /\ UNCHANGED <<users, subs, now, req, issued, history, peers>>

\* user.refreshToken = tok
setToken(doc, tok) == [doc EXCEPT !.refreshToken = tok]

\* lines 35-37: user.save answers; the caller goes on to its next store call
GenerateSave(p) ==
  /\ pc[p] = "gen_save"
  /\ IF loc[p].uid \notin Stored
       THEN /\ Send(p, ApiError(500, "Something went wrong! while generating Access and Refresh tokens"))
            /\ UNCHANGED <<users, loggedOut>>
       ELSE /\ users' = [users EXCEPT ![loc[p].uid] = setToken(@, loc[p].tok)]
            /\ Await(p, IF req[p].op = "login" THEN "login_fetch"
                                              ELSE "refresh_update", loc[p])
            /\ loggedOut' = IF req[p].op = "login" THEN loggedOut \ {loc[p].uid}
                            ELSE loggedOut
  /\ UNCHANGED <<subs, now, req, issued, registered, refreshed,
                 superseded, peers>>

\* loginUser, lines 102-125: the re-fetch answers and the response is sent
LoginFetch(p) ==
  /\ pc[p] = "login_fetch"
  /\ Send(p, ApiResponse(200, "User logged in successfully",
                         select(users[loc[p].uid], Sensitive), loc[p].tok))
  /\ issued' = issued \cup {loc[p].tok}
  /\ superseded' = superseded \cup {t \in issued : t.sub = loc[p].uid}
  /\ UNCHANGED <<users, subs, now, req, registered, refreshed,
                 loggedOut, peers>>

\* ------------------------------------------------------------ store admin
\* A user record is removed from the store by the administration path that
\* lies outside the handlers; the handlers' "user not found" checks are for
\* this case.
DeleteUser ==
  /\ \E id \in Stored : users' = [users EXCEPT ![id] = NoDoc]
  /\ UNCHANGED <<subs, now, pc, req, loc, resp, issued, history, peers>>

\* ---------------------------------------------------------- store failures
\* the awaits of register, login and refresh that are calls to the store
StoreCalls == {"reg_find", "reg_create", "reg_fetch", "login_find", "gen_find",
               "gen_save", "login_fetch", "refresh_find", "refresh_update"}

\* The store call that slot p awaits is rejected and has no effect: inside
\* generateAccessAndRefreshToken the catch at lines 38-43 turns the error
\* into an ApiError, elsewhere it reaches asyncHandler's catch as it is.
\* `created` and `saved` keep what the handler had written before.
StoreFails(p) ==
  /\ pc[p] \in StoreCalls
  /\ LET answer == IF pc[p] \in {"gen_find", "gen_save"}
                     THEN ApiError(500, "Something went wrong! while generating Access and Refresh tokens")
                     ELSE InternalError
     IN Send(p, [answer EXCEPT
                   !.created = IF pc[p] = "reg_fetch" THEN loc[p].uid ELSE 0,
                   !.saved = IF pc[p] \in {"login_fetch", "refresh_update"}
                               THEN loc[p].tok ELSE NoToken])
  /\ UNCHANGED <<users, subs, now, req, issued, history, peers>>

\* ------------------------------------------------------------------ refresh
\* the refresh tokens a client can send: none, garbage, one it was given
Presentable == {NoToken, BadToken} \cup issued

\* a comparison that never finds the two tokens equal
alwaysMismatch(presented, stored) == TRUE

\* incomingRefreshToken !== user.refreshToken
mismatch(presented, stored) == presented # stored

\* refreshAccessToken, lines 149-167: the request arrives, the token is verified
RefreshStart(p) ==
  \E t \in Presentable :
    /\ Accept(p, [op |-> "refresh", token |-> t,
                  valid |-> verify(t, "refresh", now),
                  current |-> t.sub \in Stored /\ users[t.sub].refreshToken = t,
                  afterChange |-> /\ pc[p] = "done"
                                  /\ req[p].op = "changePassword"
                                  /\ req[p].authed
                                  /\ req[p].token.sub = t.sub,
                  used |-> t \in refreshed,
                  stale |-> t \in superseded,
                  afterLogout |-> t.sub \in loggedOut])
    /\ IF t = NoToken
         THEN Send(p, ApiError(401, "Refresh token missing. Unauthorized access."))
       ELSE IF ~verify(t, "refresh", now)
         THEN Send(p, ApiError(401, "Invalid or expired refresh token"))
       ELSE Await(p, "refresh_find", [NoLoc EXCEPT !.uid = t.sub])
    /\ UNCHANGED <<users, subs, now, issued, history>>

\* refreshAccessToken, lines 167-180: User.findById answers, the tokens are compared
RefreshFind(p) ==
  /\ pc[p] = "refresh_find"
  /\ IF loc[p].uid \notin Stored
       THEN Send(p, ApiError(404, "User not found"))
     ELSE IF mismatch(req[p].token, users[loc[p].uid].refreshToken)
       THEN Send(p, ApiError(403, "Refresh token mismatch. Possibly expired or tampered."))
     ELSE Await(p, "gen_find", loc[p])
  /\ UNCHANGED <<users, subs, now, req, issued, history, peers>>

\* refreshAccessToken, lines 182-204: findByIdAndUpdate answers, the response is sent
RefreshUpdate(p) ==
  /\ pc[p] = "refresh_update"
  /\ users' = IF loc[p].uid \in Stored
                THEN [users EXCEPT ![loc[p].uid] = setToken(@, loc[p].tok)]
                ELSE users
  /\ Send(p, [ApiResponse(200, "Access and refresh tokens refreshed successfully",
                          select(users'[loc[p].uid], Sensitive), loc[p].tok)
                EXCEPT !.again = req[p].token \in refreshed])
  /\ issued' = issued \cup {loc[p].tok}
  /\ refreshed' = refreshed \cup {req[p].token}
  /\ UNCHANGED <<subs, now, req, registered, loggedOut, superseded, peers>>

\* --------------------------------------------------------------- auth guard
\* the access tokens a client can send: none, garbage, one it was given
AccessPresentable ==
  {NoToken, BadToken} \cup {generateAccessToken(t.sub, t.iat) : t \in issued}

\* verifyJWT up to its store call: the token is read and verified
Guarded(p, r) ==
  /\ Accept(p, [r EXCEPT !.authed = verify(r.token, "access", now)])
  /\ IF r.token = NoToken
       THEN Send(p, ApiError(401, "Unauthorized request"))
     ELSE IF ~verify(r.token, "access", now)
       THEN Send(p, ApiError(403, "Invalid access token"))
     ELSE Await(p, "guard_find", [NoLoc EXCEPT !.uid = r.token.sub])
  /\ UNCHANGED <<users, subs, now, issued, history>>

\* POST /logout, line 35
LogoutStart(p) ==
  \E t \in AccessPresentable :
    Guarded(p, [op |-> "logout", token |-> t, authed |-> FALSE])

PasswordBodies ==
  {[currPass |-> pwOne, newPass |-> pwTwo], [currPass |-> pwTwo, newPass |-> pwOne],
   [currPass |-> pwOne, newPass |-> pwShort], [currPass |-> Absent, newPass |-> pwTwo],
   [currPass |-> pwOne, newPass |-> blank]}

\* POST /change-current-password, line 39
ChangePasswordStart(p) ==
  \E t \in AccessPresentable, b \in PasswordBodies :
    Guarded(p, [op |-> "changePassword", token |-> t, body |-> b, authed |-> FALSE])

\* changeCurrentPassword, lines 208-227, with req.user = me
changeCurrentPassword(p, me) ==
  LET b == req[p].body IN
    IF b.currPass = Absent \/ b.newPass = Absent
       \/ trim(b.currPass) = <<>> \/ trim(b.newPass) = <<>>
      THEN Send(p, ApiError(400, "Both current and new passwords are required."))
    ELSE IF Len(b.newPass) < MinNewPassLen
      THEN Send(p, ApiError(400, "New password must be at least 6 characters long."))
    ELSE IF isPasswordCorrect(me, b.currPass) = "throws"
      THEN Send(p, InternalError)
    ELSE IF isPasswordCorrect(me, b.currPass) = "false"
      THEN Send(p, ApiError(401, "Invalid password or user"))
    ELSE Await(p, "chpw_save", [loc[p] EXCEPT !.me = me])

\* GET /current-user, line 41
CurrentUserStart(p) ==
  \E t \in AccessPresentable :
    Guarded(p, [op |-> "currentUser", token |-> t, authed |-> FALSE])

\* getCurrUser, lines 232-238, with req.user = me
getCurrUser(p, me) ==
  Send(p, ApiResponse(200, "Current user fetched successfully", me, NoToken))

\* verifyJWT: User.findById(...).select("-password -refreshToken") answers,
\* req.user is set and the handler runs up to its own store call
VerifyJWT(p) ==
  /\ pc[p] = "guard_find"
  /\ IF loc[p].uid \notin Stored
       THEN Send(p, ApiError(404, "User not found"))
     ELSE LET me == select(users[loc[p].uid], Sensitive) IN
       IF req[p].op = "logout"
         THEN Await(p, "logout_update", [loc[p] EXCEPT !.me = me])
       ELSE IF req[p].op = "currentUser"
         THEN getCurrUser(p, me)
       ELSE changeCurrentPassword(p, me)
  /\ UNCHANGED <<users, subs, now, req, issued, history, peers>>

\* findByIdAndUpdate(id, { $set: { refreshToken: undefined } }): the object
\* mapper either writes the undefined value as null or drops the key from
\* the update, depending on its version; both outcomes are kept.
unsetToken(doc, written) ==
  IF written THEN [doc EXCEPT !.refreshToken = NoToken] ELSE doc

\* the store call of a guarded handler answers and the response is sent:
\* logOutUser, lines 129-146; changeCurrentPassword, lines 227-229
GuardedUpdate(p) ==
  /\ pc[p] \in {"logout_update", "chpw_save"}
  /\ LET id == loc[p].uid IN
       IF pc[p] = "logout_update"
         THEN /\ \E written \in BOOLEAN :
                   /\ users' = IF id \in Stored
                                 THEN [users EXCEPT ![id] = unsetToken(@, written)]
                                 ELSE users
                   /\ loggedOut' = IF written /\ id \in Stored
                                     THEN loggedOut \cup {id} ELSE loggedOut
              /\ Send(p, ApiResponse(200, "User logged out successfully", NoDoc, NoToken))
         ELSE /\ users' = [users EXCEPT ![id].password = hash(req[p].body.newPass)]
              /\ Send(p, ApiResponse(200, "Password changed successfully", NoDoc, NoToken))
              /\ loggedOut' = loggedOut
  /\ UNCHANGED <<subs, now, req, issued, registered, refreshed,
                 superseded, peers>>

\* ---------------------------------------------------------- channel profile
Num(n) == [int |-> n]
Str(c) == [str |-> c]
Bool(b) == [bool |-> b]

isBlank(name) == name = Absent \/ trim(name) = <<>>

\* getUserChannelProfile, lines 327-333: the request arrives
ChannelStart(p) ==
  \E name \in {Al, bo, blank, Absent} :
    /\ Accept(p, [op |-> "channel", username |-> name,
                  known |-> {i \in Stored : users[i].username = toLowerCase(name)}])
    /\ IF isBlank(name)
         THEN Send(p, ApiError(400, "Username is missing"))
         ELSE Await(p, "chan_agg", NoLoc)
    /\ UNCHANGED <<users, subs, now, issued, history>>

subscribers(id) == {s \in subs : s[2] = id}
subscribedTo(id) == {s \in subs : s[1] = id}

\* the $lookup and $addFields stages, lines 337-369; req.user is not set on
\* this route, so the $in test is on an undefined value
addFields(doc) ==
  [_id |-> Num(doc._id), username |-> Str(doc.username),
   fullName |-> Str(doc.fullName), email |-> Str(doc.email),
   avatar |-> Str(doc.avatar),
   subscribersCount |-> Num(Cardinality(subscribers(doc._id))),
   subscribedToCount |-> Num(Cardinality(subscribedTo(doc._id))),
   isSubscribed |-> Bool(FALSE)]

\* the $project stage, lines 370-381: every listed field is given the
\* string "1", which the store reads as a literal value, not as an inclusion
project(doc) ==
  [_id |-> doc._id, username |-> Str("1"), fullName |-> Str("1"),
   email |-> Str("1"), subscribersCount |-> Str("1"),
   subscribedToCount |-> Str("1"), isSubscribed |-> Str("1"),
   avatar |-> Str("1"), coverImage |-> Str("1")]

\* getUserChannelProfile, lines 333-393: the aggregation answers
ChannelAggregate(p) ==
  /\ pc[p] = "chan_agg"
  /\ LET found == {i \in Stored : users[i].username = toLowerCase(req[p].username)} IN
       IF found = {}
         THEN Send(p, ApiError(404, "User channel not found"))
         ELSE \E id \in found :
                Send(p, [ApiResponse(200, "ok", NoDoc, NoToken)
                           EXCEPT !.channel = project(addFields(users[id]))])
  /\ UNCHANGED <<users, subs, now, req, issued, history, peers>>

\* ----------------------------------------------------------- profile images
\* an id that is undefined
NoId == 0

\* req.user?._id
userId(me) == IF "_id" \in DOMAIN me THEN me._id ELSE NoId

\* findByIdAndUpdate(id, ...): the ids the filter { _id: id } can resolve to.
\* An undefined id is either sent to the store as null, which selects no
\* document, or dropped from the filter, which then selects any document,
\* depending on the object mapper and the driver; both outcomes are kept.
findById(id) == IF id = NoId THEN {NoId} \cup Stored ELSE {id}

ImageFields == {"avatar", "coverImage"}

\* POST /update-user-avatar and /update-user-cover-image, lines 43-49: the
\* route has no guard, so req.user is never set; updateUserAvatar and
\* updateUserCoverImage, lines 259-263 and 293-297: the file is looked for
UpdateImageStart(p) ==
  \E t \in AccessPresentable, field \in ImageFields, file \in BOOLEAN :
    /\ Accept(p, [op |-> "updateImage", field |-> field, token |-> t,
                  file |-> file, authed |-> verify(t, "access", now)])
    /\ IF ~file
         THEN Send(p, ApiError(400, IF field = "avatar"
                                      THEN "Avatar file is missing"
                                      ELSE "Cover image file is missing"))
         ELSE Await(p, "img_upload", NoLoc)
    /\ UNCHANGED <<users, subs, now, issued, history>>

\* lines 265-269 and 299-303: the upload collaborator answers
ImageUpload(p) ==
  /\ pc[p] = "img_upload"
  /\ \E answer \in {"url", "null"} :
       IF ~hasUrl(answer)
         THEN Send(p, ApiError(500, IF req[p].field = "avatar"
                                      THEN "Error file uploading on cloudinary"
                                      ELSE "Failed to upload Cover image to Cloudinary"))
         ELSE Await(p, "img_update", NoLoc)
  /\ UNCHANGED <<users, subs, now, req, issued, history, peers>>

\* { $set: { avatar: url } } or { coverImage: url }
setImage(doc, field, url) ==
  [f \in (DOMAIN doc) \cup {field} |-> IF f = field THEN url ELSE doc[f]]

\* lines 271-289 and 305-323: findByIdAndUpdate(req.user?._id, ...)
\* .select("-password") answers and the response is sent
ImageUpdate(p) ==
  /\ pc[p] = "img_update"
  /\ \E id \in findById(userId(loc[p].me)) :
       IF id \notin Stored
         THEN /\ Send(p, ApiError(404, "User not found"))
              /\ users' = users
         ELSE /\ users' = [users EXCEPT ![id] = setImage(@, req[p].field, "new")]
              /\ Send(p, ApiResponse(200, "Image updated successfully",
                                     select(users'[id], {"password"}), NoToken))
  /\ UNCHANGED <<subs, now, req, issued, history, peers>>

\* ------------------------------------------------------------ specification
\* Sessions: one account; login, refresh and logout race against each other
\* while the clock runs.
Next ==
  \/ Tick
  \/ \E p \in Slots :
       \/ RegisterStart(p, OneRegisterRequest)
       \/ RegisterFind(p)
       \/ RegisterUpload(p)
       \/ RegisterCreate(p)
       \/ RegisterFetch(p)
       \/ LoginStart(p, SessionLoginBodies)
       \/ LoginFind(p)
       \/ GenerateFind(p)
       \/ GenerateSave(p)
       \/ LoginFetch(p)
       \/ RefreshStart(p)
       \/ RefreshFind(p)
       \/ RefreshUpdate(p)
       \/ LogoutStart(p)
       \/ VerifyJWT(p)
       \/ GuardedUpdate(p)

Spec == Init /\ [][Next]_vars

\* Accounts: registrations of every shape race against each other, followed
\* by logins.
NextAccounts ==
  \E p \in Slots :
    \/ RegisterStart(p, RegisterRequests)
    \/ RegisterFind(p)
    \/ RegisterUpload(p)
    \/ RegisterCreate(p)
    \/ RegisterFetch(p)
    \/ LoginStart(p, LoginBodies)
    \/ LoginFind(p)
    \/ GenerateFind(p)
    \/ GenerateSave(p)
    \/ LoginFetch(p)

SpecAccounts == Init /\ [][NextAccounts]_vars

\* Registrations alone, racing against each other.
NextRegister ==
  \E p \in Slots :
    \/ RegisterStart(p, RegisterRequests)
    \/ RegisterFind(p)
    \/ RegisterUpload(p)
    \/ RegisterCreate(p)
    \/ RegisterFetch(p)

SpecRegister == Init /\ [][NextRegister]_vars

\* Passwords: one account, its logins, its logouts and its password changes.
NextPassword ==
  \/ Tick
  \/ \E p \in Slots :
       \/ RegisterStart(p, OneRegisterRequest)
       \/ RegisterFind(p)
       \/ RegisterUpload(p)
       \/ RegisterCreate(p)
       \/ RegisterFetch(p)
       \/ LoginStart(p, SessionLoginBodies)
       \/ LoginFind(p)
       \/ GenerateFind(p)
       \/ GenerateSave(p)
       \/ LoginFetch(p)
       \/ LogoutStart(p)
       \/ ChangePasswordStart(p)
       \/ VerifyJWT(p)
       \/ GuardedUpdate(p)

SpecPassword == Init /\ [][NextPassword]_vars

\* Channels: registrations followed by channel lookups.
NextChannel ==
  \E p \in Slots :
    \/ RegisterStart(p, RegisterRequests)
    \/ RegisterFind(p)
    \/ RegisterUpload(p)
    \/ RegisterCreate(p)
    \/ RegisterFetch(p)
    \/ ChannelStart(p)
    \/ ChannelAggregate(p)

SpecChannel == Init /\ [][NextChannel]_vars

\* no request is in flight
Quiet == \A q \in Slots : Free(q)

\* One client: every operation of a session, each request sent after the
\* answer to the one before it, while the clock runs and accounts are
\* removed.
NextSequential ==
  \/ Tick
  \/ DeleteUser
  \/ \E p \in Slots :
       \/ Quiet /\ RegisterStart(p, OneRegisterRequest)
       \/ RegisterFind(p)
       \/ RegisterUpload(p)
       \/ RegisterCreate(p)
       \/ RegisterFetch(p)
       \/ Quiet /\ LoginStart(p, SessionLoginBodies)
       \/ LoginFind(p)
       \/ GenerateFind(p)
       \/ GenerateSave(p)
       \/ LoginFetch(p)
       \/ Quiet /\ RefreshStart(p)
       \/ RefreshFind(p)
       \/ RefreshUpdate(p)
       \/ Quiet /\ LogoutStart(p)
       \/ Quiet /\ ChangePasswordStart(p)
       \/ VerifyJWT(p)
       \/ GuardedUpdate(p)

SpecSequential == Init /\ [][NextSequential]_vars

\* Faults: one account, its logins and refreshes, with a store whose calls
\* can fail.
NextFaults ==
  \/ Tick
  \/ \E p \in Slots :
       \/ RegisterStart(p, OneRegisterRequest)
       \/ RegisterFind(p)
       \/ RegisterUpload(p)
       \/ RegisterCreate(p)
       \/ RegisterFetch(p)
       \/ LoginStart(p, SessionLoginBodies)
       \/ LoginFind(p)
       \/ GenerateFind(p)
       \/ GenerateSave(p)
       \/ LoginFetch(p)
       \/ RefreshStart(p)
       \/ RefreshFind(p)
       \/ RefreshUpdate(p)
       \/ StoreFails(p)

SpecFaults == Init /\ [][NextFaults]_vars

\* Profiles: one account, its logins, its current-user reads and the image
\* updates anyone sends.
NextProfile ==
  \/ Tick
  \/ \E p \in Slots :
       \/ RegisterStart(p, OneRegisterRequest)
       \/ RegisterFind(p)
       \/ RegisterUpload(p)
       \/ RegisterCreate(p)
       \/ RegisterFetch(p)
       \/ LoginStart(p, SessionLoginBodies)
       \/ LoginFind(p)
       \/ GenerateFind(p)
       \/ GenerateSave(p)
       \/ LoginFetch(p)
       \/ CurrentUserStart(p)
       \/ VerifyJWT(p)
       \/ UpdateImageStart(p)
       \/ ImageUpload(p)
       \/ ImageUpdate(p)

SpecProfile == Init /\ [][NextProfile]_vars

\* ----------------------------------------------------------------- claims
Done(p, op) == pc[p] = "done" /\ req[p].op = op

\* C1: a refresh token is accepted by refresh at most once: no token is
\* presented to two successful refreshes, and a refresh that arrives after
\* a successful refresh of the same token is answered 403 Forbidden.
C1_RefreshAtMostOnce ==
  \A p \in Slots :
    Done(p, "refresh") =>
      /\ ~resp[p].again
      /\ req[p].used => resp[p].status = 403

\* C2: once a logout of a user has finished and has cleared the stored
\* refresh token, and until a login of that user saves a new token, the
\* stored refresh token is none and a refresh that arrives with one of the
\* user's tokens is answered 403 or 401.
C2_LogoutRevokes ==
  /\ \A id \in loggedOut : users[id].refreshToken = NoToken
  /\ \A p \in Slots :
       Done(p, "refresh") /\ req[p].afterLogout /\ req[p].token.sub \in loggedOut
         => resp[p].status \in {401, 403}

Overlap(p, q) == p # q /\ (q \in peers[p] \/ p \in peers[q])

\* C3: two refresh requests that overlap in time and present the same
\* refresh token are never both answered 200 with a new token, that is,
\* with a refresh token other than the one presented.
C3_NoDoubleRefresh ==
  \A p, q \in Slots :
    Done(p, "refresh") /\ Done(q, "refresh") /\ Overlap(p, q)
      /\ req[p].token = req[q].token
      => ~(/\ resp[p].status = 200 /\ resp[p].refreshToken # req[p].token
           /\ resp[q].status = 200 /\ resp[q].refreshToken # req[q].token)

\* C4: a refresh that arrives with a refresh token which was returned before
\* a finished login of the same user is never answered 200.
C4_LoginSupersedes ==
  \A p \in Slots : Done(p, "refresh") /\ req[p].stale => resp[p].status # 200

\* no two user records share a username, compared without case, or an email
UniqueUsers ==
  \A i, j \in Stored :
    i # j => /\ toLowerCase(users[i].username) # toLowerCase(users[j].username)
             /\ users[i].email # users[j].email

\* C5 as stated: user records are unique in username and email, and a
\* registration whose username or email is held by a record when it arrives
\* is answered 409 Conflict, whatever its other fields are.
C5_ConflictAlways ==
  /\ UniqueUsers
  /\ \A p \in Slots :
       Done(p, "register") /\ req[p].taken => resp[p].status = 409

\* C5 as amended: user records are unique in username and email, and a
\* registration whose username or email is held by a record when it arrives
\* is answered 409 Conflict when its fields pass the shape validation and
\* 400 when they do not; in neither case does it create a record.
C5_ConflictWhenValid ==
  /\ UniqueUsers
  /\ \A p \in Slots :
       Done(p, "register") /\ req[p].taken =>
         /\ resp[p].status = IF registerSchemaOk(req[p].body) THEN 409 ELSE 400
         /\ resp[p].created = 0

\* a registration under a username that differs only in case from a stored
\* one has been answered 409, and one with a taken username and a password
\* that is too short has been answered 400
C5_Witness ==
  \E p, q \in Slots :
    /\ Done(p, "register") /\ req[p].taken /\ resp[p].status = 409
    /\ req[p].body.username = Al
    /\ \E i \in Stored : users[i].username = al /\ users[i].email # req[p].body.email
    /\ Done(q, "register") /\ req[q].taken /\ resp[q].status = 400
    /\ ~registerSchemaOk(req[q].body)

NoAvatar(p) ==
  req[p].op = "register" /\ (~req[p].avatar \/ req[p].uploaded = "null")

\* C6: a registration without an avatar file, or whose upload returns no
\* url, never reaches the creation of a record and is answered with a 4xx
\* status.
C6_NoAvatarNoUser ==
  \A p \in Slots :
    NoAvatar(p) =>
      /\ pc[p] \notin {"reg_create", "reg_fetch"}
      /\ pc[p] = "done" => resp[p].status \in 400..499 /\ resp[p].created = 0

\* one registration without a file and one whose upload failed have both
\* been answered, with valid fields and a free username
C6_Witness ==
  \E p, q \in Slots :
    /\ Done(p, "register") /\ ~req[p].avatar /\ ~req[p].taken
    /\ resp[p].message = "Avatar file is required"
    /\ Done(q, "register") /\ req[q].uploaded = "null"
    /\ resp[q].message = "Failed to upload avatar to cloud"

\* C7: a login that arrives with the username and password of a finished
\* registration is answered 200 with an access token and a refresh token;
\* one with that username and another well-formed password is answered 401.
C7_LoginAfterRegister ==
  \A p \in Slots :
    Done(p, "login") /\ req[p].body.email = Absent /\ req[p].known # {}
      /\ Len(req[p].body.password) >= MinPasswordLen
      => IF req[p].body.password \in req[p].known
           THEN /\ resp[p].status = 200
                /\ resp[p].accessToken # NoToken
                /\ resp[p].refreshToken # NoToken
           ELSE resp[p].status = 401

\* C8: a password change by an authenticated user, with the password the
\* account was registered with and a new password of six characters or
\* more, is answered 200.
C8_ChangePassword ==
  \A p \in Slots :
    Done(p, "changePassword") /\ req[p].authed
      /\ (\E id \in Stored : id = req[p].token.sub
            /\ users[id].password = hash(req[p].body.currPass))
      /\ Len(req[p].body.newPass) >= MinNewPassLen
      => resp[p].status = 200

\* C9: the user record in the answer of a successful register, login or
\* refresh is a user record without the password and refreshToken fields.
C9_NoSecretsInPayload ==
  \A p \in Slots :
    pc[p] = "done" /\ req[p].op \in {"register", "login", "refresh"}
      /\ resp[p].status \in {200, 201}
      => /\ "username" \in DOMAIN resp[p].user
         /\ DOMAIN resp[p].user \cap Sensitive = {}

\* a login and a refresh have both been answered 200 while the account
\* holds a password and a refresh token
C9_Witness ==
  \E p, q \in Slots :
    /\ Done(p, "login") /\ resp[p].status = 200
    /\ Done(q, "refresh") /\ resp[q].status = 200
    /\ users[1].password # <<>> /\ users[1].refreshToken # NoToken

\* C10: a channel lookup is answered 404 when the username is blank or no
\* user has it; a lookup of a username a user has is answered 200 with the
\* channel's subscriber count, subscribed-to count and isSubscribed flag.
C10_ChannelLookup ==
  \A p \in Slots :
    Done(p, "channel") =>
      /\ isBlank(req[p].username) => resp[p].status = 404
      /\ ~isBlank(req[p].username) /\ resp[p].status # 200 => resp[p].status = 404
      /\ req[p].known # {} => resp[p].status = 200
      /\ resp[p].status = 200 =>
           LET ch == resp[p].channel IN
             /\ ch.subscribersCount = Num(Cardinality(subscribers(ch._id.int)))
             /\ ch.subscribedToCount = Num(Cardinality(subscribedTo(ch._id.int)))
             /\ ch.isSubscribed \in {Bool(TRUE), Bool(FALSE)}

\* C11: an avatar or cover-image update that arrives without a valid access
\* token is stopped by the guard: it is answered 401 or 403, never runs the
\* handler's upload or store call, and no image of any user changes.
C11_ImageUpdateGuarded ==
  \A p \in Slots :
    req[p].op = "updateImage" /\ ~req[p].authed
      => /\ pc[p] = "done"
         /\ resp[p].status \in {401, 403}

\* C18: the user record in the answer of a current-user read or of an image
\* update never carries a refresh token: it has no refreshToken field, or
\* at least none with a token in it.
C18_NoTokenInRecord ==
  \A p \in Slots :
    pc[p] = "done" /\ req[p].op \in {"currentUser", "updateImage"}
      /\ resp[p].status = 200 /\ "refreshToken" \in DOMAIN resp[p].user
      => resp[p].user.refreshToken = NoToken

\* C12: a login or refresh that ends in a failure after it has saved a new
\* refresh token does not leave that token stored unless it has been
\* returned to a client.
C12_NoPartialEffect ==
  \A p \in Slots :
    pc[p] = "done" /\ req[p].op \in {"login", "refresh"}
      /\ resp[p].status >= 400 /\ resp[p].saved # NoToken
      => \/ users[resp[p].saved.sub].refreshToken # resp[p].saved
         \/ resp[p].saved \in issued

RefreshRefused(p) ==
  /\ req'[p].op = "refresh" /\ pc'[p] = "done"
  /\ resp'[p].status \in {401, 403, 404}
  /\ <<pc[p], req[p], resp[p]>> # <<pc'[p], req'[p], resp'[p]>>

\* C13: a refresh that is refused is answered by the first check that fails,
\* in the order: token absent, 401; token not verified, 401; no user for
\* the token's subject, 404; token not the stored one, 403.  The step that
\* refuses it changes no user record and issues no token.
C13_RefreshChecksInOrder ==
  [][\A p \in Slots :
       RefreshRefused(p) =>
         LET t == req'[p].token IN
           /\ resp'[p].status =
                IF t = NoToken THEN 401
                ELSE IF ~req'[p].valid THEN 401
                ELSE IF t.sub \notin Stored THEN 404
                ELSE 403
           /\ resp'[p].status = 403 => users[t.sub].refreshToken # t
           /\ users' = users
           /\ issued' = issued]_vars

\* a refresh with a verified token that was the stored one of its user has
\* been answered 404, the user having been removed since
C13_Witness ==
  \E p \in Slots :
    /\ Done(p, "refresh") /\ resp[p].status = 404 /\ req[p].valid
    /\ req[p].token \in issued /\ req[p].token.sub \notin Stored

\* slot p takes a step of a change-password request
ChangeStep(p) ==
  /\ req'[p].op = "changePassword"
  /\ <<pc[p], req[p], resp[p]>> # <<pc'[p], req'[p], resp'[p]>>

C16_LogoutNotUndone ==
  \A p \in Slots :
    /\ req[p].op = "refresh" /\ pc[p] \in {"refresh_update", "done"}
    /\ ~req[p].afterLogout /\ req[p].token.sub \in loggedOut
    => users[req[p].token.sub].refreshToken = NoToken

\* C17: a login that arrives with a username exactly as a finished
\* registration sent it, and with that registration's password, is
\* answered 200.
C17_LoginAsRegistered ==
  \A p \in Slots :
    Done(p, "login") /\ req[p].body.email = Absent
      /\ req[p].body.password \in req[p].known
      => resp[p].status = 200

====
